---- MODULE Spec2Model ----
(***************************************************************************)
(* Model of the arsdata catalog cleaning scripts (arsdatacleaning.py and   *)
(* ard_data_with_index.py): the text cleaning functions, the LC call       *)
(* number sort key, the field selection policy and the two-pass ranking    *)
(* script.                                                                 *)
(*                                                                         *)
(* A Python str is a sequence of one-character strings; None is the        *)
(* sequence <<"None">>, which no str equals (its element has 4 characters).*)
(* math.inf is the value inf, compared with NumLess.                       *)
(***************************************************************************)
EXTENDS Integers, Sequences, FiniteSets, TLC

VARIABLES pc, arg, ret, ret2,
          ingested, cleaned_rows, row_id, sorted_rows, id_to_index, written

vars == <<pc, arg, ret, ret2,
          ingested, cleaned_rows, row_id, sorted_rows, id_to_index, written>>

fnVars == <<arg, ret, ret2>>
scriptVars == <<ingested, cleaned_rows, row_id, sorted_rows, id_to_index, written>>

(***************************************************************************)
(* Python values and character classes                                     *)
(***************************************************************************)
None == <<"None">>

inf == -1

Uppers == <<"A","B","C","D","E","F","G","H","I","J","K","L","M",
            "N","O","P","Q","R","S","T","U","V","W","X","Y","Z">>

Lowers == <<"a","b","c","d","e","f","g","h","i","j","k","l","m",
            "n","o","p","q","r","s","t","u","v","w","x","y","z">>

Digits == <<"0","1","2","3","4","5","6","7","8","9">>

Range(f) == {f[i] : i \in DOMAIN f}

\* \s of the re module and the characters str.strip() removes
SpaceChars == {" ", "\t", "\n", "\r"}

IsSpace(c) == c \in SpaceChars

\* [0-9] and \d
IsDigit(c) == c \in Range(Digits)

\* [A-Z]
IsUpper(c) == c \in Range(Uppers)

IsLower(c) == c \in Range(Lowers)

\* \w, as \b sees it
IsWord(c) == IsUpper(c) \/ IsLower(c) \/ IsDigit(c) \/ c = "_"

DigitVal(c) == (CHOOSE i \in DOMAIN Digits : Digits[i] = c) - 1

\* code point order of the capital letters
Ord(c) == CHOOSE i \in DOMAIN Uppers : Uppers[i] = c

UpperChar(c) == IF IsLower(c) THEN Uppers[CHOOSE i \in DOMAIN Lowers : Lowers[i] = c] ELSE c

LowerChar(c) == IF IsUpper(c) THEN Lowers[CHOOSE i \in DOMAIN Uppers : Uppers[i] = c] ELSE c

\* str.upper()
upper(s) == [i \in 1..Len(s) |-> UpperChar(s[i])]

\* s[i:] with a 1-based first index
From(s, i) == SubSeq(s, i, Len(s))

RECURSIVE lstrip(_)
lstrip(s) == IF s # <<>> /\ IsSpace(s[1]) THEN lstrip(Tail(s)) ELSE s

RECURSIVE rstrip(_)
rstrip(s) == IF s # <<>> /\ IsSpace(s[Len(s)]) THEN rstrip(SubSeq(s, 1, Len(s) - 1)) ELSE s

\* str.strip()
strip(s) == rstrip(lstrip(s))

\* re.sub(r"\s+", " ", s)
RECURSIVE CollapseWhitespace(_)
CollapseWhitespace(s) ==
    IF s = <<>> THEN <<>>
    ELSE IF IsSpace(s[1]) THEN <<" ">> \o CollapseWhitespace(lstrip(s))
    ELSE <<s[1]>> \o CollapseWhitespace(Tail(s))

\* int() of a run of ASCII digits
RECURSIVE int(_)
int(s) == IF s = <<>> THEN 0 ELSE 10 * int(SubSeq(s, 1, Len(s) - 1)) + DigitVal(s[Len(s)])

\* the lookahead \d{4}$ at 1-based position i of s
FourDigitsThenEnd(s, i) ==
    /\ Len(s) = i + 3
    /\ \A k \in i..(i + 3) : IsDigit(s[k])

\* re.sub(r" (?!\d{4}$)", "", s): the lookahead reads the unmodified string
RECURSIVE RemoveSpacesFrom(_, _)
RemoveSpacesFrom(s, i) ==
    IF i > Len(s) THEN <<>>
    ELSE (IF s[i] = " " /\ ~FourDigitsThenEnd(s, i + 1) THEN <<>> ELSE <<s[i]>>)
         \o RemoveSpacesFrom(s, i + 1)

\* a variant that forgets to normalise runs of whitespace
clean_no_collapse(s) ==
    IF s = None \/ s = <<>> THEN <<>>
    ELSE RemoveSpacesFrom(strip(s), 1)

\* a variant whose substitution replaces only the first match (count=1)
RECURSIVE RemoveFirstSpaceFrom(_, _)
RemoveFirstSpaceFrom(s, i) ==
    IF i > Len(s) THEN <<>>
    ELSE IF s[i] = " " /\ ~FourDigitsThenEnd(s, i + 1) THEN From(s, i + 1)
    ELSE <<s[i]>> \o RemoveFirstSpaceFrom(s, i + 1)

clean_first_only(s) ==
    IF s = None \/ s = <<>> THEN <<>>
    ELSE RemoveFirstSpaceFrom(CollapseWhitespace(strip(s)), 1)

clean_call_number_keep_space_before_year(s) ==
    IF s = None \/ s = <<>> THEN <<>>
    ELSE RemoveSpacesFrom(CollapseWhitespace(strip(s)), 1)

(***************************************************************************)
(* Inputs                                                                  *)
(***************************************************************************)
RECURSIVE StringsUpTo(_, _)
StringsUpTo(alphabet, n) ==
    IF n = 0 THEN {<<>>}
    ELSE LET shorter == StringsUpTo(alphabet, n - 1)
         IN  shorter \cup {Append(s, c) : s \in shorter, c \in alphabet}

MaxCleanLen == 7

CleanAlphabet == {"A", "1", " ", "\t"}

CleanInputs == StringsUpTo(CleanAlphabet, MaxCleanLen) \cup {None}

ScriptIdle ==
    /\ ingested = <<>>
    /\ cleaned_rows = <<>>
    /\ row_id = 0
    /\ sorted_rows = <<>>
    /\ id_to_index = <<>>
    /\ written = <<>>

(***************************************************************************)
(* clean_call_number_keep_space_before_year, called on its own result      *)
(***************************************************************************)
InitClean ==
    /\ pc = "call"
    /\ arg \in CleanInputs
    /\ ret = None
    /\ ret2 = None
    /\ ScriptIdle

CallClean ==
    /\ pc = "call"
    /\ ret' = clean_call_number_keep_space_before_year(arg)
    /\ pc' = "again"
    /\ UNCHANGED <<arg, ret2, scriptVars>>

CallCleanAgain ==
    /\ pc = "again"
    /\ ret2' = clean_call_number_keep_space_before_year(ret)
    /\ pc' = "done"
    /\ UNCHANGED <<arg, ret, scriptVars>>

NextClean == CallClean \/ CallCleanAgain

SpecClean == InitClean /\ [][NextClean]_vars

NonSpace(s) == SelectSeq(s, LAMBDA c : ~IsSpace(c))

SpacePositions(s) == {i \in 1..Len(s) : IsSpace(s[i])}

\* the input, once trimmed, ends with: something, whitespace, four digits
EndsWithSpacedYear(s) ==
    \E i \in 1..Len(s) :
        /\ IsSpace(s[i])
        /\ \E k \in 1..(i - 1) : ~IsSpace(s[k])
        /\ i + 4 <= Len(s)
        /\ \A k \in (i + 1)..(i + 4) : IsDigit(s[k])
        /\ \A k \in (i + 5)..Len(s) : IsSpace(s[k])

\* C6: the cleaned call number has no whitespace except at most one space,
\* which is followed by exactly four digits ending the string; the
\* non-whitespace characters of the input are kept in order; a space
\* survives exactly when it precedes a 4-digit group ending the (trimmed)
\* input.
C6_CleanShape ==
    (pc # "call") =>
        LET text == IF arg = None THEN <<>> ELSE arg
        IN  /\ Cardinality(SpacePositions(ret)) <= 1
            /\ \A i \in SpacePositions(ret) :
                   /\ ret[i] = " "
                   /\ Len(ret) = i + 4
                   /\ \A k \in (i + 1)..(i + 4) : IsDigit(ret[k])
            /\ NonSpace(ret) = NonSpace(text)
            /\ (SpacePositions(ret) # {}) <=> EndsWithSpacedYear(text)

C6_Witness ==
    /\ pc = "done"
    /\ arg # None
    /\ Cardinality(SpacePositions(arg)) >= 2
    /\ SpacePositions(ret) # {}

\* C7: cleaning the cleaned call number changes nothing.
C7_CleanIdempotent == (pc = "done") => (ret2 = ret)

C7_Witness ==
    /\ pc = "done"
    /\ arg # None
    /\ ret # arg
    /\ SpacePositions(ret) # {}
    /\ ret2 = ret

(***************************************************************************)
(* extract_from_physical_availability                                      *)
(***************************************************************************)
\* 1-based index of the first c in s at or after position i, 0 when none
RECURSIVE Find(_, _, _)
Find(s, c, i) ==
    IF i > Len(s) THEN 0
    ELSE IF s[i] = c THEN i
    ELSE Find(s, c, i + 1)

\* .*$ without DOTALL or MULTILINE: "." is any character but a newline, and
\* "$" is the end of the string or the place before a newline that ends it
DotStarThenEnd(r) ==
    \E k \in 0..Len(r) :
        /\ \A j \in 1..k : r[j] # "\n"
        /\ \/ k = Len(r)
           \/ k = Len(r) - 1 /\ r[Len(r)] = "\n"

\* re.match(r'^([^;]*);[^;]*;([^;]*);.*$', s): <<matched, group 1, group 2>>
MatchAvailability(s) ==
    LET p1 == Find(s, ";", 1)
        p2 == IF p1 = 0 THEN 0 ELSE Find(s, ";", p1 + 1)
        p3 == IF p2 = 0 THEN 0 ELSE Find(s, ";", p2 + 1)
    IN  IF p3 # 0 /\ DotStarThenEnd(From(s, p3 + 1))
        THEN <<TRUE, SubSeq(s, 1, p1 - 1), SubSeq(s, p2 + 1, p3 - 1)>>
        ELSE <<FALSE, <<>>, <<>>>>

extract_from_physical_availability(text) ==
    IF text = None \/ text = <<>> THEN <<(<<>>), (<<>>)>>
    ELSE LET s == strip(text)
             m == MatchAvailability(s)
         IN  IF m[1] THEN <<strip(m[2]), strip(m[3])>>
             ELSE <<s, (<<>>)>>

MaxExtractLen == 6

ExtractAlphabet == {"a", "b", ";", " ", "\n"}

ExtractInputs == StringsUpTo(ExtractAlphabet, MaxExtractLen) \cup {None}

InitExtract ==
    /\ pc = "call"
    /\ arg \in ExtractInputs
    /\ ret = None
    /\ ret2 = None
    /\ ScriptIdle

CallExtract ==
    /\ pc = "call"
    /\ ret' = extract_from_physical_availability(arg)
    /\ pc' = "done"
    /\ UNCHANGED <<arg, ret2, scriptVars>>

NextExtract == CallExtract

SpecExtract == InitExtract /\ [][NextExtract]_vars

Semicolons(s) == {i \in 1..Len(s) : s[i] = ";"}

\* the k-th smallest member of a set of positions
Nth(S, k) == CHOOSE i \in S : Cardinality({j \in S : j < i}) = k - 1

\* C8: with at least 3 semicolons the result is (trimmed text before the
\* 1st, trimmed text between the 2nd and the 3rd); with fewer it is (trimmed
\* text, ""); for empty or absent text it is ("", "").
C8_ExtractSegments ==
    (pc = "done") =>
        IF arg = None \/ arg = <<>> THEN ret = <<(<<>>), (<<>>)>>
        ELSE IF Cardinality(Semicolons(arg)) >= 3
        THEN LET p1 == Nth(Semicolons(arg), 1)
                 p2 == Nth(Semicolons(arg), 2)
                 p3 == Nth(Semicolons(arg), 3)
             IN  ret = <<strip(SubSeq(arg, 1, p1 - 1)), strip(SubSeq(arg, p2 + 1, p3 - 1))>>
        ELSE ret = <<strip(arg), (<<>>)>>

(***************************************************************************)
(* best_call_number_for_sort                                               *)
(***************************************************************************)
\* dict.get(k): None when the key is absent
get(row, k) == IF k \in DOMAIN row THEN row[k] ELSE None

\* Python's "v or d" for a str or None v
Or(v, d) == IF v = None \/ v = <<>> THEN d ELSE v

CallNumberFields == <<"LC Call Number", "Local Call Number", "CNfromPA">>

RECURSIVE FirstNonEmpty(_, _, _)
FirstNonEmpty(row, fields, i) ==
    IF i > Len(fields) THEN <<>>
    ELSE LET v == strip(Or(get(row, fields[i]), <<>>))
         IN  IF v # <<>> THEN v ELSE FirstNonEmpty(row, fields, i + 1)

\* a variant that looks at Local Call Number first
best_local_first(row) ==
    FirstNonEmpty(row, <<"Local Call Number", "LC Call Number", "CNfromPA">>, 1)

best_call_number_for_sort(row) == FirstNonEmpty(row, CallNumberFields, 1)

Absent == <<"absent">>

BestValues == {Absent, None, <<>>, <<" ">>, <<"A">>, <<" ", "B", " ">>, <<"C", " ", "1">>}

\* the record with the given three values; an Absent value leaves the key out
MakeRow(lc, local, pa) ==
    LET all == [k \in Range(CallNumberFields) |->
                    IF k = "LC Call Number" THEN lc
                    ELSE IF k = "Local Call Number" THEN local ELSE pa]
    IN  [k \in {f \in Range(CallNumberFields) : all[f] # Absent} |-> all[k]]

InitBest ==
    /\ pc = "call"
    /\ \E lc \in BestValues, local \in BestValues, pa \in BestValues :
           arg = MakeRow(lc, local, pa)
    /\ ret = None
    /\ ret2 = None
    /\ ScriptIdle

CallBest ==
    /\ pc = "call"
    /\ ret' = best_call_number_for_sort(arg)
    /\ pc' = "done"
    /\ UNCHANGED <<arg, ret2, scriptVars>>

NextBest == CallBest

SpecBest == InitBest /\ [][NextBest]_vars

\* the trimmed value of a field, "" when the field is absent or None
Trimmed(row, k) ==
    IF k \notin DOMAIN row THEN <<>>
    ELSE IF row[k] = None THEN <<>>
    ELSE strip(row[k])

\* C9: the result is the trimmed value of the first of LC Call Number, Local
\* Call Number, CNfromPA that is non-empty once trimmed, "" when there is
\* none, and the record is left as it was.
C9_BestPrefersInOrder ==
    /\ [](pc = "done" =>
            \/ /\ Trimmed(arg, "LC Call Number") # <<>>
               /\ ret = Trimmed(arg, "LC Call Number")
            \/ /\ Trimmed(arg, "LC Call Number") = <<>>
               /\ Trimmed(arg, "Local Call Number") # <<>>
               /\ ret = Trimmed(arg, "Local Call Number")
            \/ /\ Trimmed(arg, "LC Call Number") = <<>>
               /\ Trimmed(arg, "Local Call Number") = <<>>
               /\ ret = Trimmed(arg, "CNfromPA"))
    /\ [][pc = "call" => arg' = arg]_vars

C9_Witness ==
    /\ pc = "done"
    /\ get(arg, "LC Call Number") = <<" ", "B", " ">>
    /\ get(arg, "Local Call Number") = <<"A">>
    /\ get(arg, "CNfromPA") = <<"C", " ", "1">>
    /\ ret = <<"B">>

(***************************************************************************)
(* Numbers and the order of sort keys                                      *)
(*                                                                         *)
(* A number is <<integer part, fraction digits without trailing zeros>>,   *)
(* so an int n is <<n, <<>>>>; inf is defined above as the integer part -1.*)
(***************************************************************************)
Infinity == <<inf, <<>>>>

RECURSIVE DropTrailingZeros(_)
DropTrailingZeros(d) ==
    IF d # <<>> /\ d[Len(d)] = "0" THEN DropTrailingZeros(SubSeq(d, 1, Len(d) - 1)) ELSE d

\* int(digits) as a number
IntNum(digits) == <<int(digits), <<>>>>

\* float("digits") or float("digits.digits")
Float(intDigits, fracDigits) == <<int(intDigits), DropTrailingZeros(fracDigits)>>

\* order of two fractions given by their digits
FracLess(f, g) ==
    \E i \in 1..Len(g) :
        /\ \A j \in 1..(i - 1) : j <= Len(f) /\ f[j] = g[j]
        /\ \/ i > Len(f)
           \/ DigitVal(f[i]) < DigitVal(g[i])

\* a < b for numbers, +inf above every finite number
NumLess(a, b) ==
    IF a = Infinity THEN FALSE
    ELSE IF b = Infinity THEN TRUE
    ELSE a[1] < b[1] \/ (a[1] = b[1] /\ FracLess(a[2], b[2]))

\* a < b for strings of capital letters: by code point, a proper prefix first
StrLess(a, b) ==
    \E i \in 1..Len(b) :
        /\ \A j \in 1..(i - 1) : j <= Len(a) /\ a[j] = b[j]
        /\ \/ i > Len(a)
           \/ Ord(a[i]) < Ord(b[i])

\* a < b for two sort keys: Python's tuple comparison, deciding at the first
\* component that differs (components 1, 3, 5, 7 are str, the rest numbers)
KeyLess(a, b) ==
    \E i \in 1..9 :
        /\ \A j \in 1..(i - 1) : a[j] = b[j]
        /\ IF i \in {1, 3, 5, 7} THEN StrLess(a[i], b[i]) ELSE NumLess(a[i], b[i])

(***************************************************************************)
(* lc_sort_key                                                             *)
(***************************************************************************)
\* str.replace(<<a, b>>, r): non-overlapping occurrences, left to right
RECURSIVE ReplacePair(_, _, _, _)
ReplacePair(s, a, b, r) ==
    IF Len(s) < 2 THEN s
    ELSE IF s[1] = a /\ s[2] = b THEN <<r>> \o ReplacePair(SubSeq(s, 3, Len(s)), a, b, r)
    ELSE <<s[1]>> \o ReplacePair(Tail(s), a, b, r)

\* length of the run of characters of the class that starts at position i
RECURSIVE RunLength(_, _, _)
RunLength(s, i, class) ==
    IF i <= Len(s) /\ s[i] \in class THEN 1 + RunLength(s, i + 1, class) ELSE 0

Min(a, b) == IF a < b THEN a ELSE b

\* re.match(r"\s*([A-Z]{1,3})\s*([0-9]+(?:\.[0-9]+)?)?", s):
\* <<letters, number, m.end()>>
_parse_class_and_number(s) ==
    LET lead == RunLength(s, 1, SpaceChars)
        nl   == Min(3, RunLength(s, lead + 1, Range(Uppers)))
        a    == lead + nl
        b    == a + RunLength(s, a + 1, SpaceChars)
        nd   == RunLength(s, b + 1, Range(Digits))
        c    == b + nd
        nf   == IF c + 1 <= Len(s) /\ s[c + 1] = "." THEN RunLength(s, c + 2, Range(Digits)) ELSE 0
    IN  IF nl = 0 THEN <<(<<>>), Infinity, 0>>
        ELSE IF nd = 0 THEN <<SubSeq(s, lead + 1, a), Infinity, b>>
        ELSE IF nf = 0 THEN <<SubSeq(s, lead + 1, a), Float(SubSeq(s, b + 1, c), <<>>), c>>
        ELSE <<SubSeq(s, lead + 1, a), Float(SubSeq(s, b + 1, c), SubSeq(s, c + 2, c + 1 + nf)),
               c + 1 + nf>>

\* _cutter_re matched at position i: <<matched, letter, digits, end>>
CutterAt(s, i) ==
    LET a  == IF i <= Len(s) /\ s[i] = "." THEN i + 1 ELSE i
        b  == a + RunLength(s, a, SpaceChars)
        c  == b + 1 + RunLength(s, b + 1, SpaceChars)
        nd == RunLength(s, c, Range(Digits))
    IN  IF b <= Len(s) /\ IsUpper(s[b]) /\ nd > 0
        THEN <<TRUE, s[b], SubSeq(s, c, c + nd - 1), c + nd>>
        ELSE <<FALSE, "", <<>>, i>>

\* [(m.group(1), int(m.group(2))) for m in _cutter_re.finditer(s)], from i on
RECURSIVE FindCutters(_, _)
FindCutters(s, i) ==
    IF i > Len(s) THEN <<>>
    ELSE LET m == CutterAt(s, i)
         IN  IF m[1] THEN << <<(<<m[2]>>), IntNum(m[3])>> >> \o FindCutters(s, m[4])
             ELSE FindCutters(s, i + 1)

\* ([12][0-9]{3})(?![0-9]) at position j
YearDigitsAt(s, j) ==
    /\ j + 3 <= Len(s)
    /\ s[j] \in {"1", "2"}
    /\ \A k \in (j + 1)..(j + 3) : IsDigit(s[k])
    /\ (j + 4 <= Len(s)) => ~IsDigit(s[j + 4])

\* _year_re matched at position i: the 1-based place of its group, 0 if none
YearAt(s, i) ==
    IF i = 1 /\ YearDigitsAt(s, 1) THEN 1
    ELSE IF i <= Len(s) /\ ~IsDigit(s[i]) /\ YearDigitsAt(s, i + 1) THEN i + 1
    ELSE 0

\* the group of the last match of _year_re.finditer(s) from i on, else last
RECURSIVE LastYear(_, _, _)
LastYear(s, i, last) ==
    IF i > Len(s) THEN last
    ELSE LET j == YearAt(s, i)
         IN  IF j # 0 THEN LastYear(s, j + 4, IntNum(SubSeq(s, j, j + 3)))
             ELSE LastYear(s, i + 1, last)

_parse_cutters_and_extras(s) == <<FindCutters(s, 1), LastYear(s, 1, Infinity)>>

MissingCutter == <<(<<>>), Infinity>>

\* a variant that keeps the last three cutters instead of the first three
PadCuttersLast(cutters) ==
    LET padded == cutters \o <<MissingCutter, MissingCutter, MissingCutter>>
        n      == IF Len(cutters) > 3 THEN Len(cutters) - 3 ELSE 0
    IN  SubSeq(padded, n + 1, n + 3)

\* (cutters + [("", inf)] * 3)[:3]
PadCutters(cutters) ==
    SubSeq(cutters \o <<MissingCutter, MissingCutter, MissingCutter>>, 1, 3)

ZZZ == <<"Z", "Z", "Z">>

\* raw.strip().upper(), whitespace runs to one space, ".." and " ." to "."
NormalizeCallNumber(raw) ==
    strip(ReplacePair(ReplacePair(CollapseWhitespace(upper(strip(raw))), ".", ".", "."),
                      " ", ".", "."))

lc_sort_key(raw) ==
    IF raw = None \/ raw = <<>>
    THEN <<ZZZ, Infinity, <<>>, Infinity, <<>>, Infinity, <<>>, Infinity, Infinity>>
    ELSE LET s       == NormalizeCallNumber(raw)
             cls     == _parse_class_and_number(s)
             rest    == From(s, cls[3] + 1)
             parsed  == _parse_cutters_and_extras(rest)
             cutters == PadCutters(parsed[1])
         IN  <<Or(cls[1], ZZZ), cls[2],
               cutters[1][1], cutters[1][2],
               cutters[2][1], cutters[2][2],
               cutters[3][1], cutters[3][2],
               parsed[2]>>

MaxKeyTokens == 5

KeyTokens == {<<"A", "1">>, <<"b", "2">>, <<"C">>, <<"1">>, <<".">>, <<" ">>}

RECURSIVE TokenStringsUpTo(_, _)
TokenStringsUpTo(tokens, n) ==
    IF n = 0 THEN {<<>>}
    ELSE LET shorter == TokenStringsUpTo(tokens, n - 1)
         IN  shorter \cup {s \o tk : s \in shorter, tk \in tokens}

KeyInputs == TokenStringsUpTo(KeyTokens, MaxKeyTokens) \cup {None}

InitKey ==
    /\ pc = "call"
    /\ arg \in KeyInputs
    /\ ret = None
    /\ ret2 = None
    /\ ScriptIdle

CallKey ==
    /\ pc = "call"
    /\ ret' = lc_sort_key(arg)
    /\ pc' = "done"
    /\ UNCHANGED <<arg, ret2, scriptVars>>

NextKey == CallKey

SpecKey == InitKey /\ [][NextKey]_vars

\* the text of a call number after its classification segment
RestOf(raw) ==
    IF raw = None \/ raw = <<>> THEN <<>>
    ELSE LET s == NormalizeCallNumber(raw)
         IN  From(s, _parse_class_and_number(s)[3] + 1)

\* the places of a capital letter that is followed, after blanks only, by a digit
CutterStarts(r) ==
    {p \in 1..Len(r) :
        /\ IsUpper(r[p])
        /\ \E q \in (p + 1)..Len(r) :
               /\ IsDigit(r[q])
               /\ \A j \in (p + 1)..(q - 1) : IsSpace(r[j])}

\* the value of the digits that follow the letter at p
CutterNumber(r, p) ==
    LET q == CHOOSE q \in (p + 1)..Len(r) :
                 IsDigit(r[q]) /\ \A j \in (p + 1)..(q - 1) : IsSpace(r[j])
        e == CHOOSE e \in q..Len(r) :
                 /\ \A j \in q..e : IsDigit(r[j])
                 /\ (e < Len(r)) => ~IsDigit(r[e + 1])
    IN  IntNum(SubSeq(r, q, e))

\* the places of a capital letter that a digit follows immediately
CutterStartsAdjacent(r) ==
    {p \in 1..(Len(r) - 1) : IsUpper(r[p]) /\ IsDigit(r[p + 1])}

\* C10 as stated: the key has 9 components; cutter slot k holds the k-th
\* group "one capital letter followed by digits" of the text after the
\* classification segment, in order of appearance, for k up to 3; the slots
\* left over, and only those, hold the missing pair ("", inf).
C10_AsStated ==
    (pc = "done") =>
        LET r      == RestOf(arg)
            starts == CutterStartsAdjacent(r)
        IN  /\ Len(ret) = 9
            /\ \A k \in 1..3 :
                   IF k <= Cardinality(starts)
                   THEN /\ ret[2 * k + 1] = <<r[Nth(starts, k)]>>
                        /\ ret[2 * k + 2] = CutterNumber(r, Nth(starts, k))
                   ELSE /\ ret[2 * k + 1] = <<>>
                        /\ ret[2 * k + 2] = Infinity

\* C10, amended: the key has 9 components; cutter slot k holds the k-th
\* cutter group of the text after the classification segment, in order of
\* appearance, for k up to 3, where a cutter group is one capital letter,
\* then optional blanks, then digits; groups after the third are dropped;
\* the slots left over, and only those, hold the missing pair ("", inf).
C10_ThreeCutterSlots ==
    (pc = "done") =>
        LET r      == RestOf(arg)
            starts == CutterStarts(r)
        IN  /\ Len(ret) = 9
            /\ \A k \in 1..3 :
                   IF k <= Cardinality(starts)
                   THEN /\ ret[2 * k + 1] = <<r[Nth(starts, k)]>>
                        /\ ret[2 * k + 2] = CutterNumber(r, Nth(starts, k))
                   ELSE /\ ret[2 * k + 1] = <<>>
                        /\ ret[2 * k + 2] = Infinity

C10_Witness ==
    /\ pc = "done"
    /\ Cardinality(CutterStarts(RestOf(arg))) = 4
    /\ ret[1] = <<"A">>
    /\ ret[3] = <<"B">>
    /\ ret[5] = <<"A">>
    /\ ret[7] = <<"B">>
    /\ ret[8] = IntNum(<<"2">>)

(***************************************************************************)
(* The main script of ard_data_with_index.py                               *)
(*                                                                         *)
(* A row is a dict: a function from field names to values.  cleaned_rows   *)
(* holds the row objects; sorted_rows holds references to the same objects,*)
(* modelled as their positions in cleaned_rows.                            *)
(***************************************************************************)
AndOthers == <<"a", "n", "d", " ", "o", "t", "h", "e", "r", "s">>

\* \band others\b with re.IGNORECASE, matched at position i
AndOthersAt(s, i) ==
    /\ i + 9 <= Len(s)
    /\ \A k \in 1..10 : LowerChar(s[i + k - 1]) = AndOthers[k]
    /\ (i > 1) => ~IsWord(s[i - 1])
    /\ (i + 10 <= Len(s)) => ~IsWord(s[i + 10])

\* re.sub(r"\band others\b", "", s, flags=re.IGNORECASE), from position i on
RECURSIVE RemoveAndOthers(_, _)
RemoveAndOthers(s, i) ==
    IF i > Len(s) THEN <<>>
    ELSE IF AndOthersAt(s, i) THEN RemoveAndOthers(s, i + 10)
    ELSE <<s[i]>> \o RemoveAndOthers(s, i + 1)

\* row[k] = v
Set(row, k, v) == (k :> v) @@ row

\* row.pop(k, None)
Pop(row, k) == [f \in (DOMAIN row) \ {k} |-> row[f]]

\* the position where x goes in a list sorted so far: after every element
\* that is not greater, so that equal keys stay in their order
RECURSIVE InsertStable(_, _, _)
InsertStable(list, x, key) ==
    IF list = <<>> THEN <<x>>
    ELSE IF KeyLess(key[x], key[list[1]]) THEN <<x>> \o list
    ELSE <<list[1]>> \o InsertStable(Tail(list), x, key)

\* a variant that puts x before the elements with an equal key
RECURSIVE InsertBeforeEqual(_, _, _)
InsertBeforeEqual(list, x, key) ==
    IF list = <<>> THEN <<x>>
    ELSE IF ~KeyLess(key[list[1]], key[x]) THEN <<x>> \o list
    ELSE <<list[1]>> \o InsertBeforeEqual(Tail(list), x, key)

RECURSIVE SortUnstable(_, _)
SortUnstable(list, key) ==
    IF list = <<>> THEN <<>>
    ELSE InsertBeforeEqual(SortUnstable(SubSeq(list, 1, Len(list) - 1), key), list[Len(list)], key)

\* sorted(list, key=...): a stable sort that compares keys with < only
RECURSIVE sorted(_, _)
sorted(list, key) ==
    IF list = <<>> THEN <<>>
    ELSE InsertStable(sorted(SubSeq(list, 1, Len(list) - 1), key), list[Len(list)], key)

\* a variant of the final loop that walks the sorted copy
WriteOrderSorted(rows, sortedRefs) == sortedRefs

\* for row in cleaned_rows: the references the final loop visits, in order
WriteOrder(rows, sortedRefs) == [i \in 1..Len(rows) |-> i]

MaxRows == 3

RequiredFields == {"Title", "Local Call Number", "LC Call Number", "Physical Availability"}

RawRow(title, local, lc, pa) ==
    [k \in RequiredFields |->
        IF k = "Title" THEN title
        ELSE IF k = "Local Call Number" THEN local
        ELSE IF k = "LC Call Number" THEN lc
        ELSE pa]

\* Title, Local Call Number, LC Call Number, Physical Availability
RawRows ==
    {
     \* 'T1', '', 'QA76 .C15 2019', 'Stacks;x;QA 1;y'
     RawRow(<<"T", "1">>,
            <<>>,
            <<"Q", "A", "7", "6", " ", ".", "C", "1", "5", " ", "2", "0", "1", "9">>,
            <<"S", "t", "a", "c", "k", "s", ";", "x", ";", "Q", "A", " ", "1", ";", "y">>),
     \* 'T2', 'PS35 .A1', '', 'Main'
     RawRow(<<"T", "2">>,
            <<"P", "S", "3", "5", " ", ".", "A", "1">>,
            <<>>,
            <<"M", "a", "i", "n">>),
     \* 'T3', '', '', ''
     RawRow(<<"T", "3">>,
            <<>>,
            <<>>,
            <<>>),
     \* 'T4', '', '', 'a;b;ZZZ .A1;c'
     RawRow(<<"T", "4">>,
            <<>>,
            <<>>,
            <<"a", ";", "b", ";", "Z", "Z", "Z", " ", ".", "A", "1", ";", "c">>),
     \* 'T5', 'x', 'qa76 And Others', ''
     RawRow(<<"T", "5">>,
            <<"x">>,
            <<"q", "a", "7", "6", " ", "A", "n", "d", " ", "O", "t", "h", "e", "r", "s">>,
            <<>>),
     \* 'T6', '12', ' ', 'Main;;;'
     RawRow(<<"T", "6">>,
            <<"1", "2">>,
            <<" ">>,
            <<"M", "a", "i", "n", ";", ";", ";">>),
     \* 'T7', '', 'QA76 .C15  2019', 'Stacks'
     RawRow(<<"T", "7">>,
            <<>>,
            <<"Q", "A", "7", "6", " ", ".", "C", "1", "5", " ", " ", "2", "0", "1", "9">>,
            <<"S", "t", "a", "c", "k", "s">>)
    }

Init ==
    /\ pc = "first_pass"
    /\ arg = None
    /\ ret = None
    /\ ret2 = None
    /\ ingested = <<>>
    /\ cleaned_rows = <<>>
    /\ row_id = 0
    /\ sorted_rows = <<>>
    /\ id_to_index = <<>>
    /\ written = <<>>

\* one iteration of the first pass over the reader
ReadRow(raw) ==
    /\ pc = "first_pass"
    /\ row_id < MaxRows
    /\ LET pa   == extract_from_physical_availability(get(raw, "Physical Availability"))
           lc   == strip(RemoveAndOthers(get(raw, "LC Call Number"), 1))
           r1   == Set(raw, "_row_id", row_id + 1)
           r2   == Set(r1, "Physical Availability", pa[1])
           r3   == Set(r2, "CNfromPA", clean_call_number_keep_space_before_year(pa[2]))
           r4   == Set(r3, "Local Call Number",
                       clean_call_number_keep_space_before_year(get(raw, "Local Call Number")))
           r5   == Set(r4, "LC Call Number", clean_call_number_keep_space_before_year(lc))
           r6   == Set(r5, "_lc_sort_key", lc_sort_key(best_call_number_for_sort(r5)))
       IN  cleaned_rows' = Append(cleaned_rows, r6)
    /\ row_id' = row_id + 1
    /\ ingested' = Append(ingested, raw)
    /\ UNCHANGED <<pc, fnVars, sorted_rows, id_to_index, written>>

\* the reader is exhausted: sort a copy of the list and number its rows
SecondPass ==
    /\ pc = "first_pass"
    /\ LET key  == [i \in 1..Len(cleaned_rows) |-> cleaned_rows[i]["_lc_sort_key"]]
           refs == sorted([i \in 1..Len(cleaned_rows) |-> i], key)
       IN  /\ sorted_rows' = refs
           /\ id_to_index' = [id \in {cleaned_rows[refs[i]]["_row_id"] : i \in 1..Len(refs)} |->
                                 CHOOSE i \in 1..Len(refs) : cleaned_rows[refs[i]]["_row_id"] = id]
    /\ pc' = "final_write"
    /\ UNCHANGED <<fnVars, ingested, cleaned_rows, row_id, written>>

\* one iteration of the final loop: the row object is changed in place
WriteRow ==
    /\ pc = "final_write"
    /\ Len(written) < Len(cleaned_rows)
    /\ LET ref == WriteOrder(cleaned_rows, sorted_rows)[Len(written) + 1]
           row == cleaned_rows[ref]
           out == Pop(Pop(Set(row, "LC_SortIndex", id_to_index[row["_row_id"]]), "_row_id"),
                      "_lc_sort_key")
       IN  /\ cleaned_rows' = [cleaned_rows EXCEPT ![ref] = out]
           /\ written' = Append(written, out)
    /\ UNCHANGED <<pc, fnVars, ingested, row_id, sorted_rows, id_to_index>>

\* the final loop is over
Finish ==
    /\ pc = "final_write"
    /\ Len(written) = Len(cleaned_rows)
    /\ pc' = "done"
    /\ UNCHANGED <<fnVars, scriptVars>>

Next ==
    \/ \E raw \in RawRows : ReadRow(raw)
    \/ SecondPass
    \/ WriteRow
    \/ Finish

Spec == Init /\ [][Next]_vars

\* the ranking string and the sort key of a row, from its cleaned fields
RankingString(row) == best_call_number_for_sort(row)

KeyOf(row) == lc_sort_key(RankingString(row))

\* C1: the ranks are 1..N, each once, and rank(a) < rank(b) exactly when
\* key(a) < key(b), or the keys are equal and a was ingested before b.
C1_RankIsStableSortPosition ==
    (pc = "done") =>
        LET N == Len(written)
            rank(i) == written[i]["LC_SortIndex"]
        IN  /\ N = Len(ingested)
            /\ {rank(i) : i \in 1..N} = 1..N
            /\ \A a \in 1..N, b \in 1..N :
                   (a # b) =>
                       ((rank(a) < rank(b)) <=>
                            \/ KeyLess(KeyOf(written[a]), KeyOf(written[b]))
                            \/ /\ KeyOf(written[a]) = KeyOf(written[b])
                               /\ a < b)

C1_Witness ==
    /\ pc = "done"
    /\ Len(written) = 3
    /\ RankingString(written[1]) # RankingString(written[2])
    /\ KeyOf(written[1]) = KeyOf(written[2])
    /\ KeyLess(KeyOf(written[3]), KeyOf(written[1]))
    /\ written[1]["LC_SortIndex"] = 2
    /\ written[2]["LC_SortIndex"] = 3

\* the cleaned fields of an input row
CleanedFields(raw) ==
    LET pa == extract_from_physical_availability(raw["Physical Availability"])
    IN  [k \in RequiredFields \cup {"CNfromPA"} |->
            IF k = "Title" THEN raw["Title"]
            ELSE IF k = "Physical Availability" THEN pa[1]
            ELSE IF k = "CNfromPA" THEN clean_call_number_keep_space_before_year(pa[2])
            ELSE IF k = "Local Call Number"
                 THEN clean_call_number_keep_space_before_year(raw["Local Call Number"])
            ELSE clean_call_number_keep_space_before_year(
                     strip(RemoveAndOthers(raw["LC Call Number"], 1)))]

\* C2: the i-th record written is the i-th record read, with its cleaned
\* fields and a rank and without _row_id and _lc_sort_key; when the script
\* is done there is one record written per record read.
C2_OutputInIngestionOrder ==
    /\ Len(written) <= Len(ingested)
    /\ (pc = "done") => Len(written) = Len(ingested)
    /\ \A i \in 1..Len(written) :
           /\ DOMAIN written[i] = RequiredFields \cup {"CNfromPA", "LC_SortIndex"}
           /\ \A k \in RequiredFields \cup {"CNfromPA"} :
                  written[i][k] = CleanedFields(ingested[i])[k]

C2_Witness ==
    /\ pc = "done"
    /\ Len(written) = 3
    /\ written[1]["LC_SortIndex"] = 3
    /\ written[2]["LC_SortIndex"] = 1
    /\ written[3]["LC_SortIndex"] = 2

\* C3: a record whose ranking string is empty has a rank greater than that
\* of every record whose ranking string is not empty.
C3_EmptyRanksLast ==
    (pc = "done") =>
        \A i \in 1..Len(written), j \in 1..Len(written) :
            (RankingString(written[i]) = <<>> /\ RankingString(written[j]) # <<>>) =>
                written[i]["LC_SortIndex"] > written[j]["LC_SortIndex"]

\* the rows that still carry their sort key
Keyed == {i \in 1..Len(cleaned_rows) : "_lc_sort_key" \in DOMAIN cleaned_rows[i]}

\* the call number starts with a capital letter once upper-cased
StartsWithLetters(s) == s # <<>> /\ IsUpper(UpperChar(s[1]))

\* C4: the classLetters component of a call number without classification
\* letters is strictly greater than that of every call number that starts
\* with 1 to 3 letters.
C4_MissingLettersAboveReal ==
    \A i \in Keyed, j \in Keyed :
        (/\ ~StartsWithLetters(RankingString(cleaned_rows[i]))
         /\ StartsWithLetters(RankingString(cleaned_rows[j]))) =>
            StrLess(cleaned_rows[j]["_lc_sort_key"][1], cleaned_rows[i]["_lc_sort_key"][1])

\* C5: of two keys that agree before cutter slot k, the one whose slot k is
\* missing is greater than the one whose slot k holds a cutter.
C5_MissingCutterLast ==
    \A i \in Keyed, j \in Keyed, k \in 1..3 :
        LET ki == cleaned_rows[i]["_lc_sort_key"]
            kj == cleaned_rows[j]["_lc_sort_key"]
        IN  (/\ \A m \in 1..(2 * k) : ki[m] = kj[m]
             /\ <<ki[2 * k + 1], ki[2 * k + 2]>> = MissingCutter
             /\ kj[2 * k + 1] # <<>>) =>
                KeyLess(kj, ki)

====
